---- MODULE Spec2Model ----
(***************************************************************************)
(* Model of HashADT.c: an open-addressing hash table with linear probing    *)
(* and threshold-triggered doubling.  Keys and values are opaque pointers;  *)
(* NULL (0) in a slot's key field marks the slot empty.                     *)
(***************************************************************************)
EXTENDS Integers, Sequences, FiniteSets, TLC

\* ------------------------------------------------------------------ bounds
\* Key pointers the client holds: 1..MaxKey.
MaxKey == 5
\* Non-NULL value pointers the client holds: 1..MaxVal (NULL is a value too).
MaxVal == 1
\* Calls whose collision count would pass this are not explored.
MaxCollisions == 6

\* ------------------------------------------------------- program constants
NULL == 0
\* HashADT.h (not part of the sources at hand): the table's tuning constants.
INITIAL_CAPACITY == 4
RESIZE_FACTOR == 2
\* LOAD_THRESHOLD is 0.75, kept as the exact fraction 3/4.
LOAD_THRESHOLD_NUM == 3
LOAD_THRESHOLD_DEN == 4
\* Width of size_t in the model: hash values live in 0 .. 2^SizeBits - 1 and
\* hash++ wraps there, as size_t arithmetic wraps at 2^64.
SizeBits == 5
SizeMod == 2 ^ SizeBits

\* ------------------------------------------------------------ client side
\* A key pointer is never NULL: NULL in a slot's key field means "no key".
KeyPtrs == 1 .. MaxKey
ValPtrs == 0 .. MaxVal
\* What an element of a malloc'd array that was never written may hold: NULL,
\* a pointer the client knows, or a pointer it does not (MaxVal + 1).
AnyPtr == 0 .. (MaxVal + 1)

\* The client's notion of key equality: distinct pointers may denote equal
\* keys.  Pointer MaxKey denotes the same key as pointer 1.
KeyClass(p) == IF p = MaxKey THEN 1 ELSE p
Classes == {KeyClass(p) : p \in KeyPtrs}

\* Client hash functions handed to ht_create, as functions of the key's
\* class (equal keys hash equally).  Key 1 hashes to the largest size_t;
\* stride 4 makes every key collide at the initial capacity, stride 1 spreads
\* the keys.
HashStrides == {1, 4}
HashOf(s) == [c \in Classes |-> (SizeMod - 1 + s * (c - 1)) % SizeMod]
HashFns == {HashOf(s) : s \in HashStrides}
NoFcn == <<>>

\* -------------------------------------------------------------- the struct
\* struct KeyValuePair
EmptyPair == [key |-> NULL, value |-> NULL]
\* calloc(n, sizeof(KeyValuePair))
Calloc(n) == [i \in 0 .. (n - 1) |-> EmptyPair]
\* The table before ht_create has run.
NoTable == [capacity |-> 0, occupancy |-> 0, collisions |-> 0, rehashes |-> 0,
            hash_fcn |-> NoFcn, equals_fcn |-> FALSE, print_fcn |-> FALSE,
            delete_fcn |-> FALSE, table |-> Calloc(0)]

VARIABLES
  t,        \* struct hashtab_s
  pc,       \* "start", "live", "aborted" (failed assert), "hung", "overrun", "destroyed"
  M,        \* the abstract map: key class -> value of its latest put
  last,     \* the last call: its name, arguments and result
  deleted   \* the delete callback's invocations, in order

vars == <<t, pc, M, last, deleted>>

\* t->hash_fcn(key)
hash_fcn(tab, key) == tab.hash_fcn[KeyClass(key)]
\* t->equals_fcn(key1, key2)
equals_fcn(key1, key2) == KeyClass(key1) = KeyClass(key2)

\* A call as the client sees it: its name, its arguments and what it returned;
\* for a put also whether it rehashed and whether the call before it was a put
\* of an equal key.  For ht_create, value holds the four callbacks passed.
NoCall == [op |-> "none", key |-> NULL, value |-> NULL, ret |-> NULL,
           rehashed |-> FALSE, again |-> FALSE]
Call(op, key, value, ret) ==
  [op |-> op, key |-> key, value |-> value, ret |-> ret,
   rehashed |-> FALSE, again |-> FALSE]

\* ---------------------------------------------------------------- ht_create
\* ht_create without assert(print != NULL).
ht_create_NoPrintAssert(hash, equals, print, delete) ==
  IF hash = NoFcn \/ ~equals
  THEN [aborted |-> TRUE, t |-> NoTable]
  ELSE [aborted |-> FALSE,
        t |-> [capacity |-> INITIAL_CAPACITY, occupancy |-> 0, collisions |-> 0,
               rehashes |-> 0, hash_fcn |-> hash, equals_fcn |-> equals,
               print_fcn |-> print, delete_fcn |-> delete,
               table |-> Calloc(INITIAL_CAPACITY)]]

ht_create(hash, equals, print, delete) ==
  IF hash = NoFcn \/ ~equals \/ ~print
  THEN [aborted |-> TRUE, t |-> NoTable]
  ELSE [aborted |-> FALSE,
        t |-> [capacity |-> INITIAL_CAPACITY, occupancy |-> 0, collisions |-> 0,
               rehashes |-> 0, hash_fcn |-> hash, equals_fcn |-> equals,
               print_fcn |-> print, delete_fcn |-> delete,
               table |-> Calloc(INITIAL_CAPACITY)]]

\* ------------------------------------------------------------------- ht_has
\* The do-while of ht_has: one iteration per call.
RECURSIVE HasLoop(_, _, _, _, _)
HasLoop(tab, key, hash_value, index, orig_index) ==
  LET pair == tab.table[index] IN
  IF pair.key = NULL THEN [ret |-> FALSE, t |-> tab]
  ELSE IF equals_fcn(key, pair.key) THEN [ret |-> TRUE, t |-> tab]
  ELSE LET hv == (hash_value + 1) % SizeMod
           ix == hv % tab.capacity
           t1 == [tab EXCEPT !.collisions = @ + 1]
       IN IF ix # orig_index THEN HasLoop(t1, key, hv, ix, orig_index)
          ELSE [ret |-> FALSE, t |-> t1]

\* ht_has counting the matching slot as a collision too.
ht_has_CountsMatch(tab, key) ==
  LET hash_value == hash_fcn(tab, key)
      orig_index == hash_value % tab.capacity
      r == HasLoop(tab, key, hash_value, orig_index, orig_index)
  IN IF r.ret THEN [ret |-> TRUE, t |-> [r.t EXCEPT !.collisions = @ + 1]] ELSE r

\* ht_has counting its collisions in occupancy instead of collisions.
ht_has_WrongCounter(tab, key) ==
  LET hash_value == hash_fcn(tab, key)
      orig_index == hash_value % tab.capacity
      r == HasLoop(tab, key, hash_value, orig_index, orig_index)
  IN [ret |-> r.ret,
      t |-> [tab EXCEPT !.occupancy = @ + (r.t.collisions - tab.collisions)]]

\* ht_has without the probe: only the key's ideal slot is looked at.
ht_has_OneSlot(tab, key) ==
  LET pair == tab.table[hash_fcn(tab, key) % tab.capacity]
  IN [ret |-> pair.key # NULL /\ equals_fcn(key, pair.key), t |-> tab]

ht_has(tab, key) ==
  LET hash_value == hash_fcn(tab, key)
      orig_index == hash_value % tab.capacity
  IN HasLoop(tab, key, hash_value, orig_index, orig_index)

\* ------------------------------------------------------------------- ht_get
\* The while loop of ht_get without hashcode++: the same slot is read again
\* and again.
GetLoop_NoIncrement(tab, key, hashcode, index, fuel) ==
  IF equals_fcn(key, tab.table[index].key)
  THEN [hung |-> FALSE, ret |-> tab.table[index].value]
  ELSE [hung |-> TRUE, ret |-> NULL]

\* The while loop of ht_get; it has no exit but the match, so it is given
\* capacity steps and reported hung when they run out.
RECURSIVE GetLoop(_, _, _, _, _)
GetLoop(tab, key, hashcode, index, fuel) ==
  LET pair == tab.table[index] IN
  IF equals_fcn(key, pair.key) THEN [hung |-> FALSE, ret |-> pair.value]
  ELSE IF fuel = 0 THEN [hung |-> TRUE, ret |-> NULL]
  ELSE LET hc == (hashcode + 1) % SizeMod
       IN GetLoop(tab, key, hc, hc % tab.capacity, fuel - 1)

\* ht_get without its assert(ht_has(t, key)).
ht_get_NoAssert(tab, key) ==
  LET hashcode == hash_fcn(tab, key)
      g == GetLoop(tab, key, hashcode, hashcode % tab.capacity, tab.capacity)
  IN [aborted |-> FALSE, hung |-> g.hung, ret |-> g.ret, t |-> tab]

ht_get(tab, key) ==
  LET h == ht_has(tab, key) IN
  IF ~h.ret THEN [aborted |-> TRUE, hung |-> FALSE, ret |-> NULL, t |-> h.t]
  ELSE LET hashcode == hash_fcn(h.t, key)
           g == GetLoop(h.t, key, hashcode, hashcode % h.t.capacity, h.t.capacity)
       IN [aborted |-> FALSE, hung |-> g.hung, ret |-> g.ret, t |-> h.t]

\* ------------------------------------------------------------------- ht_put
\* The growth test with > for >=.
NeedsRehash_Strict(tab) ==
  tab.occupancy * LOAD_THRESHOLD_DEN > tab.capacity * LOAD_THRESHOLD_NUM

\* The growth test: (double) occupancy / capacity >= LOAD_THRESHOLD.
NeedsRehash(tab) ==
  tab.occupancy * LOAD_THRESHOLD_DEN >= tab.capacity * LOAD_THRESHOLD_NUM

\* The inner do-while of the rehash: advance to the next free slot of
\* new_table, counting one collision per step.
RECURSIVE RehashProbe(_, _, _, _, _)
RehashProbe(new_table, capacity, hash, collisions, fuel) ==
  LET h1 == (hash + 1) % SizeMod
      index == h1 % capacity
  IN IF fuel = 0 THEN [hung |-> TRUE, index |-> index, collisions |-> collisions]
     ELSE IF new_table[index].key # NULL
          THEN RehashProbe(new_table, capacity, h1, collisions + 1, fuel - 1)
          ELSE [hung |-> FALSE, index |-> index, collisions |-> collisions + 1]

\* The for loop of the rehash taking each key's first index modulo the old
\* capacity (the capacity updated after the loop instead of before it).
RECURSIVE RehashLoop_OldCapacity(_, _, _, _, _)
RehashLoop_OldCapacity(tab, old_table, old_capacity, i, new_table) ==
  IF i >= old_capacity THEN [hung |-> FALSE, t |-> tab, new_table |-> new_table]
  ELSE LET pair == old_table[i] IN
       IF pair.key = NULL
       THEN RehashLoop_OldCapacity(tab, old_table, old_capacity, i + 1, new_table)
       ELSE LET hash == hash_fcn(tab, pair.key)
                index == hash % old_capacity
            IN IF new_table[index].key # NULL
               THEN LET p == RehashProbe(new_table, tab.capacity, hash,
                                         tab.collisions, tab.capacity)
                    IN IF p.hung
                       THEN [hung |-> TRUE, t |-> tab, new_table |-> new_table]
                       ELSE RehashLoop_OldCapacity(
                              [tab EXCEPT !.collisions = p.collisions],
                              old_table, old_capacity, i + 1,
                              [new_table EXCEPT ![p.index] = pair])
               ELSE RehashLoop_OldCapacity(tab, old_table, old_capacity, i + 1,
                                           [new_table EXCEPT ![index] = pair])

\* The for loop of the rehash over the old table, from index i on.
RECURSIVE RehashLoop(_, _, _, _, _)
RehashLoop(tab, old_table, old_capacity, i, new_table) ==
  IF i >= old_capacity THEN [hung |-> FALSE, t |-> tab, new_table |-> new_table]
  ELSE LET pair == old_table[i] IN
       IF pair.key = NULL
       THEN RehashLoop(tab, old_table, old_capacity, i + 1, new_table)
       ELSE LET hash == hash_fcn(tab, pair.key)
                index == hash % tab.capacity
            IN IF new_table[index].key # NULL
               THEN LET p == RehashProbe(new_table, tab.capacity, hash,
                                         tab.collisions, tab.capacity)
                    IN IF p.hung
                       THEN [hung |-> TRUE, t |-> tab, new_table |-> new_table]
                       ELSE RehashLoop([tab EXCEPT !.collisions = p.collisions],
                                       old_table, old_capacity, i + 1,
                                       [new_table EXCEPT ![p.index] = pair])
               ELSE RehashLoop(tab, old_table, old_capacity, i + 1,
                               [new_table EXCEPT ![index] = pair])

\* The rehash without t->rehashes++.
Rehash_NoCount(tab) ==
  LET t1 == [tab EXCEPT !.capacity = tab.capacity * RESIZE_FACTOR]
      r == RehashLoop(t1, tab.table, tab.capacity, 0,
                      Calloc(tab.capacity * RESIZE_FACTOR))
  IN [hung |-> r.hung, t |-> [r.t EXCEPT !.table = r.new_table]]

\* The rehash with its for loop starting at index 1.
Rehash_SkipsSlotZero(tab) ==
  LET t1 == [tab EXCEPT !.capacity = tab.capacity * RESIZE_FACTOR]
      r == RehashLoop(t1, tab.table, tab.capacity, 1,
                      Calloc(tab.capacity * RESIZE_FACTOR))
  IN [hung |-> r.hung,
      t |-> [r.t EXCEPT !.table = r.new_table, !.rehashes = @ + 1]]

\* The body of `if (current_threshold >= LOAD_THRESHOLD)`.
Rehash(tab) ==
  LET new_table == Calloc(tab.capacity * RESIZE_FACTOR)
      old_table == tab.table
      old_capacity == tab.capacity
      t1 == [tab EXCEPT !.capacity = old_capacity * RESIZE_FACTOR]
      r == RehashLoop(t1, old_table, old_capacity, 0, new_table)
  IN [hung |-> r.hung,
      t |-> [r.t EXCEPT !.table = r.new_table, !.rehashes = @ + 1]]

\* The growth check installing the new array without filling it.
Grow_NoCopy(tab) ==
  IF NeedsRehash(tab)
  THEN [hung |-> FALSE,
        t |-> [tab EXCEPT !.capacity = tab.capacity * RESIZE_FACTOR,
                          !.table = Calloc(tab.capacity * RESIZE_FACTOR),
                          !.rehashes = @ + 1]]
  ELSE [hung |-> FALSE, t |-> tab]

\* The first part of ht_put: the growth check.
Grow(tab) ==
  IF NeedsRehash(tab) THEN Rehash(tab) ELSE [hung |-> FALSE, t |-> tab]

\* The do-while of the placement comparing key pointers (key ==
\* collision_pair.key) instead of calling equals_fcn.
RECURSIVE PlaceLoop_PointerEquality(_, _, _, _, _, _)
PlaceLoop_PointerEquality(tab, key, value, new_hash, new_index, fuel) ==
  LET collision_pair == tab.table[new_index] IN
  IF key = collision_pair.key
  THEN [hung |-> FALSE, ret |-> collision_pair.value,
        t |-> [tab EXCEPT !.table[new_index].value = value]]
  ELSE LET t1 == [tab EXCEPT !.collisions = @ + 1]
           nh == (new_hash + 1) % SizeMod
           ni == nh % tab.capacity
       IN IF t1.table[ni].key # NULL
          THEN IF fuel = 0 THEN [hung |-> TRUE, ret |-> NULL, t |-> t1]
               ELSE PlaceLoop_PointerEquality(t1, key, value, nh, ni, fuel - 1)
          ELSE [hung |-> FALSE, ret |-> NULL,
                t |-> [t1 EXCEPT !.table[ni] = [key |-> key, value |-> value],
                                 !.occupancy = @ + 1]]

\* The do-while of the placement.
RECURSIVE PlaceLoop(_, _, _, _, _, _)
PlaceLoop(tab, key, value, new_hash, new_index, fuel) ==
  LET collision_pair == tab.table[new_index] IN
  IF equals_fcn(key, collision_pair.key)
  THEN [hung |-> FALSE, ret |-> collision_pair.value,
        t |-> [tab EXCEPT !.table[new_index].value = value]]
  ELSE LET t1 == [tab EXCEPT !.collisions = @ + 1]
           nh == (new_hash + 1) % SizeMod
           ni == nh % tab.capacity
       IN IF t1.table[ni].key # NULL
          THEN IF fuel = 0 THEN [hung |-> TRUE, ret |-> NULL, t |-> t1]
               ELSE PlaceLoop(t1, key, value, nh, ni, fuel - 1)
          ELSE [hung |-> FALSE, ret |-> NULL,
                t |-> [t1 EXCEPT !.table[ni] = [key |-> key, value |-> value],
                                 !.occupancy = @ + 1]]

\* The placement with occupancy++ on the update path too.
Place_CountsUpdate(tab, key, value) ==
  LET new_hash == hash_fcn(tab, key)
      new_index == new_hash % tab.capacity
      p == IF tab.table[new_index].key = NULL
           THEN [hung |-> FALSE, ret |-> NULL,
                 t |-> [tab EXCEPT !.table[new_index] = [key |-> key, value |-> value]]]
           ELSE PlaceLoop(tab, key, value, new_hash, new_index, tab.capacity)
  IN [p EXCEPT !.t.occupancy = tab.occupancy + 1]

\* The second part of ht_put: place the new pair.
Place(tab, key, value) ==
  LET new_hash == hash_fcn(tab, key)
      new_index == new_hash % tab.capacity
  IN IF tab.table[new_index].key = NULL
     THEN [hung |-> FALSE, ret |-> NULL,
           t |-> [tab EXCEPT !.table[new_index] = [key |-> key, value |-> value],
                             !.occupancy = @ + 1]]
     ELSE PlaceLoop(tab, key, value, new_hash, new_index, tab.capacity)

\* ht_put returning NULL on an update too.
ht_put_ReturnsNull(tab, key, value) ==
  LET g == Grow(tab)
      p == Place(g.t, key, value)
  IN [hung |-> g.hung \/ p.hung, ret |-> NULL, mid |-> g.t, t |-> p.t]

ht_put(tab, key, value) ==
  LET g == Grow(tab) IN
  IF g.hung THEN [hung |-> TRUE, ret |-> NULL, mid |-> g.t, t |-> g.t]
  ELSE LET p == Place(g.t, key, value)
       IN [hung |-> p.hung, ret |-> p.ret, mid |-> g.t, t |-> p.t]

\* ------------------------------------------------------ ht_keys, ht_values
\* The arrays a scan can return: malloc'd with n elements, the first
\* Len(written) of them written, the others left as malloc gave them.
\* Allocation is taken to succeed, so the assert after it passes.
Malloced(written, n) ==
  IF Len(written) >= n THEN {written}
  ELSE {written \o tail : tail \in [1 .. (n - Len(written)) -> AnyPtr]}

\* The for loop of ht_keys from index i on: the keys written so far.
RECURSIVE KeysLoop(_, _, _)
KeysLoop(tab, i, keys) ==
  IF i >= tab.capacity THEN keys
  ELSE LET pair == tab.table[i] IN
       IF pair.key # NULL THEN KeysLoop(tab, i + 1, Append(keys, pair.key))
       ELSE KeysLoop(tab, i + 1, keys)

\* ht_keys with its for loop starting at index 1.
ht_keys_SkipsSlotZero(tab) ==
  LET written == KeysLoop(tab, 1, <<>>) IN
  [written |-> written, overrun |-> Len(written) > tab.occupancy,
   arrays |-> Malloced(written, tab.occupancy)]

\* ht_keys: written is what the loop stored, arrays the possible results
\* (each occupancy long), overrun whether the loop wrote past the allocation.
ht_keys(tab) ==
  LET written == KeysLoop(tab, 0, <<>>) IN
  [written |-> written, overrun |-> Len(written) > tab.occupancy,
   arrays |-> Malloced(written, tab.occupancy)]

\* The for loop of ht_values from index i on.
RECURSIVE ValuesLoop(_, _, _)
ValuesLoop(tab, i, values) ==
  IF i >= tab.capacity THEN values
  ELSE LET pair == tab.table[i] IN
       IF pair.value # NULL THEN ValuesLoop(tab, i + 1, Append(values, pair.value))
       ELSE ValuesLoop(tab, i + 1, values)

ht_values(tab) ==
  LET written == ValuesLoop(tab, 0, <<>>) IN
  [written |-> written, overrun |-> Len(written) > tab.occupancy,
   arrays |-> Malloced(written, tab.occupancy)]

\* ------------------------------------------------------------------ ht_dump
\* The slot listing of ht_dump from index i on: "null" for an empty slot,
\* else what print_fcn is called with.
RECURSIVE DumpLoop(_, _, _)
DumpLoop(tab, i, out) ==
  IF i >= tab.capacity THEN out
  ELSE LET pair == tab.table[i] IN
       DumpLoop(tab, i + 1,
                Append(out, IF pair.key = NULL THEN <<i, "null">>
                            ELSE <<i, "pair", pair.key, pair.value>>))

ht_dump(tab, contents) ==
  [size |-> tab.occupancy, capacity |-> tab.capacity,
   collisions |-> tab.collisions, rehashes |-> tab.rehashes,
   listing |-> IF contents THEN DumpLoop(tab, 0, <<>>) ELSE <<>>]

\* --------------------------------------------------------------- ht_destroy
\* The for loop of ht_destroy from index i on: the delete_fcn calls made.
RECURSIVE DestroyLoop(_, _, _)
DestroyLoop(tab, i, calls) ==
  IF i >= tab.capacity THEN calls
  ELSE LET pair == tab.table[i] IN
       IF pair.key # NULL
       THEN DestroyLoop(tab, i + 1, Append(calls, <<pair.key, pair.value>>))
       ELSE DestroyLoop(tab, i + 1, calls)

\* ht_destroy calling delete_fcn for the empty slots too.
ht_destroy_EverySlot(tab) ==
  IF tab.delete_fcn
  THEN [i \in 1 .. tab.capacity |->
          <<tab.table[i - 1].key, tab.table[i - 1].value>>]
  ELSE <<>>

ht_destroy(tab) ==
  IF tab.delete_fcn THEN DestroyLoop(tab, 0, <<>>) ELSE <<>>

\* ------------------------------------------------------------------ actions
Init ==
  /\ t = NoTable
  /\ pc = "start"
  /\ M = <<>>
  /\ last = NoCall
  /\ deleted = <<>>

Create ==
  /\ pc = "start"
  /\ \E hash \in HashFns \cup {NoFcn}, equals \in BOOLEAN, print \in BOOLEAN,
        delete \in BOOLEAN :
       LET r == ht_create(hash, equals, print, delete) IN
       /\ t' = r.t
       /\ pc' = IF r.aborted THEN "aborted" ELSE "live"
       /\ last' = Call("create", NULL, <<hash, equals, print, delete>>, ~r.aborted)
  /\ UNCHANGED <<M, deleted>>

Has ==
  /\ pc = "live"
  /\ \E key \in KeyPtrs :
       LET r == ht_has(t, key) IN
       /\ r.t.collisions <= MaxCollisions
       /\ t' = r.t
       /\ last' = Call("has", key, NULL, r.ret)
  /\ UNCHANGED <<pc, M, deleted>>

Get ==
  /\ pc = "live"
  /\ \E key \in KeyPtrs :
       LET r == ht_get(t, key) IN
       /\ r.t.collisions <= MaxCollisions
       /\ t' = r.t
       /\ pc' = IF r.aborted THEN "aborted" ELSE IF r.hung THEN "hung" ELSE "live"
       /\ last' = Call("get", key, NULL, r.ret)
  /\ UNCHANGED <<M, deleted>>

Put ==
  /\ pc = "live"
  /\ \E key \in KeyPtrs, value \in ValPtrs :
       LET r == ht_put(t, key, value) IN
       /\ r.t.collisions <= MaxCollisions
       /\ t' = r.t
       /\ pc' = IF r.hung THEN "hung" ELSE "live"
       /\ M' = [c \in DOMAIN M \cup {KeyClass(key)} |->
                  IF c = KeyClass(key) THEN value ELSE M[c]]
       /\ last' = [Call("put", key, value, r.ret) EXCEPT
                    !.rehashed = NeedsRehash(t),
                    !.again = (last.op = "put" /\ equals_fcn(last.key, key))]
  /\ UNCHANGED deleted

Keys ==
  /\ pc = "live"
  /\ LET r == ht_keys(t) IN
     /\ pc' = IF r.overrun THEN "overrun" ELSE "live"
     /\ \E keys \in r.arrays : last' = Call("keys", NULL, NULL, keys)
  /\ UNCHANGED <<t, M, deleted>>

Values ==
  /\ pc = "live"
  /\ LET r == ht_values(t) IN
     /\ pc' = IF r.overrun THEN "overrun" ELSE "live"
     /\ \E values \in r.arrays : last' = Call("values", NULL, NULL, values)
  /\ UNCHANGED <<t, M, deleted>>

Dump ==
  /\ pc = "live"
  /\ \E contents \in BOOLEAN :
       last' = Call("dump", NULL, contents, ht_dump(t, contents))
  /\ UNCHANGED <<t, pc, M, deleted>>

Destroy ==
  /\ pc = "live"
  /\ deleted' = ht_destroy(t)
  /\ pc' = "destroyed"
  /\ last' = Call("destroy", NULL, NULL, NULL)
  /\ UNCHANGED <<t, M>>

Next ==
  \/ Create
  \/ Has
  \/ Get
  \/ Put
  \/ Keys
  \/ Values
  \/ Dump
  \/ Destroy

Spec == Init /\ [][Next]_vars

\* --------------------------------------------------------------- observers
\* What the client reads off a table through the code's own lookups.
has(tab, key) == ht_has(tab, key).ret
get(tab, key) == ht_get(tab, key).ret
present(tab, key) == ~ht_get(tab, key).aborted /\ ~ht_get(tab, key).hung

\* The occupied slots and the (key, value) pairs they store.
OccupiedSlots(tab) == {i \in DOMAIN tab.table : tab.table[i].key # NULL}
StoredPairs(tab) == {tab.table[i] : i \in OccupiedSlots(tab)}

\* occupancy / capacity >= 0.75, as the claims state it.
LoadAtThreshold(tab) == 4 * tab.occupancy >= 3 * tab.capacity

\* The keys (values) of the occupied slots, in slot-index order.
Rank(tab, i) == Cardinality({j \in OccupiedSlots(tab) : j < i}) + 1
NthOccupied(tab, n) == CHOOSE i \in OccupiedSlots(tab) : Rank(tab, i) = n
KeysInOrder(tab) ==
  [n \in 1 .. Cardinality(OccupiedSlots(tab)) |-> tab.table[NthOccupied(tab, n)].key]
ValuesInOrder(tab) ==
  [n \in 1 .. Cardinality(OccupiedSlots(tab)) |-> tab.table[NthOccupied(tab, n)].value]

\* A step of the program that is a call of ht_put.
PutStep == pc = "live" /\ last'.op = "put"

\* ------------------------------------------------------------------- claims

\* C1: once put(t, k, v) has returned, has(t, k) is true, right after the put
\* and in every later state of the table, whatever further puts (rehashing or
\* not) follow.  DOMAIN M is the set of keys put so far.
C1_HasAfterPut ==
  pc = "live" =>
    \A key \in KeyPtrs : KeyClass(key) \in DOMAIN M => has(t, key)

\* A has that answers true for a key which a rehash and a later put moved
\* away from its ideal slot in a table of at least four keys.
C1_Witness ==
  /\ pc = "live"
  /\ last.op = "has"
  /\ last.ret = TRUE
  /\ t.rehashes >= 1
  /\ t.occupancy >= 4
  /\ ~equals_fcn(t.table[hash_fcn(t, last.key) % t.capacity].key, last.key)

\* C2: put(t, k, v1) immediately followed by put(t, k, v2) leaves occupancy as
\* the first put left it, the second put returns v1, and get(t, k) is then
\* v2; also when the second put rehashes first.
C2_PutTwice ==
  [][(PutStep /\ last.op = "put" /\ equals_fcn(last.key, last'.key))
       => /\ pc' = "live"
          /\ t'.occupancy = t.occupancy
          /\ last'.ret = last.value
          /\ present(t', last'.key)
          /\ get(t', last'.key) = last'.value]_vars

\* The second of two puts of one key, with different values, that rehashed.
C2_Witness ==
  /\ pc = "live"
  /\ last.op = "put"
  /\ last.again
  /\ last.rehashed
  /\ last.ret # last.value

\* C3: the table refines the abstract map M: every put returns what M
\* returns (the old M[k], or NULL for a new key), has(t, k) is true exactly
\* for the keys of M, get(t, k) = M[k] for them, and occupancy = |dom M|.
C3_RefinesMap ==
  /\ [](pc = "live" =>
          /\ \A key \in KeyPtrs :
               /\ has(t, key) <=> KeyClass(key) \in DOMAIN M
               /\ KeyClass(key) \in DOMAIN M =>
                    present(t, key) /\ get(t, key) = M[KeyClass(key)]
          /\ t.occupancy = Cardinality(DOMAIN M))
  /\ [][PutStep
          => /\ pc' = "live"
             /\ last'.ret = IF KeyClass(last'.key) \in DOMAIN M
                            THEN M[KeyClass(last'.key)] ELSE NULL]_vars

\* An update through a pointer other than the stored one, after a rehash,
\* while some key was never put.
C3_Witness ==
  /\ pc = "live"
  /\ last.op = "put"
  /\ last.ret # NULL
  /\ t.rehashes >= 1
  /\ \E i \in OccupiedSlots(t) :
       equals_fcn(t.table[i].key, last.key) /\ t.table[i].key # last.key
  /\ DOMAIN M # Classes

\* C4: a rehash inside put keeps every stored pair: each key present before
\* it reads the same value right after it (before the placement), the set of
\* stored pairs is the same, and after the whole put every key other than
\* the one put still reads its old value.
C4_RehashKeepsData ==
  [][(PutStep /\ LoadAtThreshold(t))
       => LET mid == Grow(t).t IN
          /\ ~Grow(t).hung
          /\ pc' = "live"
          /\ StoredPairs(mid) = StoredPairs(t)
          /\ \A key \in KeyPtrs :
               has(t, key) =>
                 /\ present(mid, key)
                 /\ get(mid, key) = get(t, key)
                 /\ ~equals_fcn(key, last'.key)
                      => present(t', key) /\ get(t', key) = get(t, key)]_vars

\* A put that rehashed a table holding a NULL and a non-NULL value.
C4_Witness ==
  /\ pc = "live"
  /\ last.op = "put"
  /\ last.rehashed
  /\ \E i, j \in OccupiedSlots(t) :
       /\ ~equals_fcn(t.table[i].key, last.key)
       /\ ~equals_fcn(t.table[j].key, last.key)
       /\ t.table[i].value = NULL
       /\ t.table[j].value # NULL

\* C5: a put that starts with occupancy / capacity >= 0.75, inserting or
\* updating, doubles capacity and adds exactly 1 to rehashes, and places its
\* key in the fully redistributed new array (the result differs from the
\* rehashed table only in the slot of the key put).  With initial capacity 4,
\* a table of four keys has capacity 8, rehashes 1 and has() true for all four.
C5_GrowthTrigger ==
  /\ [][(PutStep /\ LoadAtThreshold(t))
          => LET mid == Grow(t).t IN
             /\ t'.capacity = RESIZE_FACTOR * t.capacity
             /\ t'.rehashes = t.rehashes + 1
             /\ pc' = "live"
             /\ mid.capacity = t'.capacity
             /\ StoredPairs(mid) = StoredPairs(t)
             /\ \A i \in DOMAIN t'.table :
                  \/ t'.table[i] = mid.table[i]
                  \/ equals_fcn(t'.table[i].key, last'.key)]_vars
  /\ [][(PutStep /\ ~LoadAtThreshold(t))
          => t'.capacity = t.capacity /\ t'.rehashes = t.rehashes]_vars
  /\ []((pc = "live" /\ t.occupancy = 4)
          => /\ t.capacity = 8
             /\ t.rehashes = 1
             /\ \A key \in KeyPtrs : KeyClass(key) \in DOMAIN M => has(t, key))

\* The fourth distinct key went in by the put that rehashed.
C5_Witness ==
  /\ pc = "live"
  /\ last.op = "put"
  /\ last.rehashed
  /\ last.ret = NULL
  /\ t.occupancy = 4
  /\ t.capacity = 8
  /\ t.rehashes = 1

\* C6: values(t) returns exactly occupancy elements: the value of every
\* occupied slot, in slot-index order, a stored NULL value included (the key
\* field decides inclusion).
C6_ValuesByKey ==
  last.op = "values" =>
    /\ pc = "live"
    /\ Len(last.ret) = t.occupancy
    /\ last.ret = ValuesInOrder(t)

\* C7: keys(t) returns the keys of the occupied slots in slot-index order,
\* exactly occupancy of them, and writes no more than that.
C7_KeysInOrder ==
  /\ pc = "live" =>
       /\ ~ht_keys(t).overrun
       /\ ht_keys(t).arrays = {KeysInOrder(t)}
       /\ Len(ht_keys(t).written) = t.occupancy
  /\ last.op = "keys" =>
       /\ pc = "live"
       /\ last.ret = KeysInOrder(t)
       /\ Len(last.ret) = t.occupancy

\* keys() of a rehashed table whose slot 0 is occupied and whose keys do not
\* sit in pointer order.
C7_Witness ==
  /\ pc = "live"
  /\ last.op = "keys"
  /\ t.rehashes >= 1
  /\ Len(last.ret) >= 4
  /\ t.table[0].key # NULL
  /\ \E i \in 1 .. (Len(last.ret) - 1) : last.ret[i] > last.ret[i + 1]

\* C8: keys(t) and values(t) agree: both have occupancy elements and
\* get(t, keys(t)[i]) = values(t)[i] for every index i.
C8_KeysValuesConsistent ==
  (pc = "live" /\ last.op = "values") =>
    /\ Len(last.ret) = t.occupancy
    /\ \A keys \in ht_keys(t).arrays :
         /\ Len(keys) = t.occupancy
         /\ \A i \in 1 .. t.occupancy :
              present(t, keys[i]) /\ get(t, keys[i]) = last.ret[i]

\* C9: destroy on a table with a delete callback calls it exactly once per
\* key ever put, with that key and the value of its latest put, and for
\* nothing else; the callback is never called before destroy, and never when
\* none was supplied.
C9_DeleteOncePerKey ==
  /\ pc # "destroyed" => deleted = <<>>
  /\ (pc = "destroyed" /\ ~t.delete_fcn) => deleted = <<>>
  /\ (pc = "destroyed" /\ t.delete_fcn) =>
       /\ Len(deleted) = Cardinality(DOMAIN M)
       /\ \A c \in DOMAIN M :
            \E i \in 1 .. Len(deleted) :
              KeyClass(deleted[i][1]) = c /\ deleted[i][2] = M[c]
       /\ \A i \in 1 .. Len(deleted) : deleted[i][1] # NULL

\* destroy of a rehashed table of four keys, one of them holding NULL.
C9_Witness ==
  /\ pc = "destroyed"
  /\ t.delete_fcn
  /\ t.rehashes >= 1
  /\ Len(deleted) >= 4
  /\ \E i \in 1 .. Len(deleted) : deleted[i][2] = NULL

\* C10: get(t, k) where has(t, k) is false halts on the failed assert and
\* returns nothing; for a present key it returns the key's value and does
\* not halt.
C10_GetContract ==
  last.op = "get" =>
    IF has(t, last.key)
    THEN pc = "live" /\ last.ret = M[KeyClass(last.key)]
    ELSE pc = "aborted"

\* get of an absent key whose ideal slot is taken by another key.
C10_Witness ==
  /\ last.op = "get"
  /\ pc = "aborted"
  /\ t.table[hash_fcn(t, last.key) % t.capacity].key # NULL

\* C11: create halts on the failed assert, producing no table, when hash,
\* equals or print is absent; with the three present it succeeds, with or
\* without delete, and the new table has the initial capacity, every slot
\* empty and occupancy, collisions and rehashes zero.
C11_CreateContract ==
  last.op = "create" =>
    LET hash == last.value[1]
        equals == last.value[2]
        print == last.value[3]
        delete == last.value[4]
    IN IF hash = NoFcn \/ ~equals \/ ~print
       THEN pc = "aborted" /\ t = NoTable /\ last.ret = FALSE
       ELSE /\ pc = "live"
            /\ last.ret = TRUE
            /\ t.capacity = INITIAL_CAPACITY
            /\ DOMAIN t.table = 0 .. (INITIAL_CAPACITY - 1)
            /\ \A i \in DOMAIN t.table : t.table[i] = EmptyPair
            /\ t.occupancy = 0 /\ t.collisions = 0 /\ t.rehashes = 0
            /\ t.hash_fcn = hash /\ t.delete_fcn = delete

\* create called with hash and equals but no print.
C11_Witness ==
  /\ last.op = "create"
  /\ pc = "aborted"
  /\ last.value[1] # NoFcn
  /\ last.value[2]
  /\ ~last.value[3]

\* The ideal slot of the key stored in slot i, and how far slot i lies behind
\* it on the probe sequence.
Home(tab, i) == hash_fcn(tab, tab.table[i].key) % tab.capacity
Displacement(tab, i) == (i - Home(tab, i)) % tab.capacity

\* C12: dump, keys and values leave slots, capacity, occupancy, collisions
\* and rehashes as they were; has leaves all of these but collisions.
C12_ReadsDoNotMutate ==
  [][pc = "live" =>
       /\ last'.op \in {"dump", "keys", "values"} => t' = t
       /\ last'.op = "has" => t' = [t EXCEPT !.collisions = t'.collisions]]_vars

\* A has that probed past an occupied slot of another key and missed.
C12_Witness ==
  /\ pc = "live"
  /\ last.op = "has"
  /\ last.ret = FALSE
  /\ t.table[hash_fcn(t, last.key) % t.capacity].key # NULL
  /\ t.collisions >= 2

\* C13: for every occupied slot i whose key hashes to h, every slot on the
\* probe sequence h mod capacity, (h + 1) mod capacity, ... up to i is
\* occupied: no empty slot between a key's ideal slot and its slot.
C13_ProbeChain ==
  pc = "live" =>
    \A i \in OccupiedSlots(t) :
      \A d \in 0 .. Displacement(t, i) :
        t.table[(hash_fcn(t, t.table[i].key) + d) % t.capacity].key # NULL

\* After a rehash, a key whose probe sequence wrapped around the array end.
C13_Witness ==
  /\ pc = "live"
  /\ t.rehashes >= 1
  /\ \E i \in OccupiedSlots(t) : i < Home(t, i)

\* C14: the table is never full: occupancy < capacity and an empty slot
\* exists; when the growth check rehashes, the doubled table is strictly
\* below the threshold, and placing one more key does not fill it.
C14_NeverFull ==
  pc = "live" =>
    /\ t.occupancy < t.capacity
    /\ \E i \in DOMAIN t.table : t.table[i].key = NULL
    /\ LET mid == Grow(t).t IN
       /\ ~LoadAtThreshold(mid)
       /\ mid.occupancy + 1 < mid.capacity

\* The fullest table: a put left all but one slot of the array taken.
C14_Witness ==
  /\ pc = "live"
  /\ last.op = "put"
  /\ t.occupancy + 1 = t.capacity
  /\ LoadAtThreshold(t)

\* C15: every operation terminates: no call ever hangs; in every state has
\* makes at most capacity probe steps for any key, every put (rehash loops
\* and placement loop) returns, and get of a present key returns.
C15_Terminates ==
  /\ pc # "hung"
  /\ pc = "live" =>
       \A key \in KeyPtrs :
         /\ ht_has(t, key).t.collisions - t.collisions <= t.capacity
         /\ \A value \in ValPtrs : ~ht_put(t, key, value).hung
         /\ has(t, key) => ~ht_get(t, key).hung

\* get returned the value of a key that a rehash left away from its ideal slot.
C15_Witness ==
  /\ pc = "live"
  /\ last.op = "get"
  /\ t.rehashes >= 1
  /\ \E i \in OccupiedSlots(t) :
       equals_fcn(t.table[i].key, last.key) /\ Displacement(t, i) >= 1

\* C16: no two occupied slots hold keys that are equal under equals_fcn; a
\* put of a present key updates its slot, also across a rehash.
C16_NoDuplicateKeys ==
  pc = "live" =>
    /\ \A i, j \in OccupiedSlots(t) :
         i # j => ~equals_fcn(t.table[i].key, t.table[j].key)
    /\ last.op = "put" =>
         Cardinality({i \in OccupiedSlots(t) : equals_fcn(t.table[i].key, last.key)}) = 1

\* The put that triggered the rehash was an update, through another pointer,
\* of a key inserted before it.
C16_Witness ==
  /\ pc = "live"
  /\ last.op = "put"
  /\ last.rehashed
  /\ t.occupancy = 3
  /\ \E i \in OccupiedSlots(t) :
       equals_fcn(t.table[i].key, last.key) /\ t.table[i].key # last.key

\* C17: capacity > 0, 0 <= occupancy <= capacity, occupancy is the number of
\* occupied slots; a put adds exactly 1 to occupancy when it places a new pair
\* and 0 when it updates, and a rehash leaves occupancy unchanged.
C17_Counters ==
  pc = "live" =>
    /\ t.capacity > 0
    /\ DOMAIN t.table = 0 .. (t.capacity - 1)
    /\ 0 <= t.occupancy /\ t.occupancy <= t.capacity
    /\ t.occupancy = Cardinality(OccupiedSlots(t))
    /\ Grow(t).t.occupancy = t.occupancy
    /\ \A key \in KeyPtrs, value \in ValPtrs :
         ht_put(t, key, value).t.occupancy =
           t.occupancy + (IF KeyClass(key) \in DOMAIN M THEN 0 ELSE 1)

\* An update that did not rehash, in a grown table of four keys.
C17_Witness ==
  /\ pc = "live"
  /\ last.op = "put"
  /\ ~last.rehashed
  /\ last.again
  /\ t.occupancy = 4

\* C18: a put rehashes at most once: rehashes grows by exactly 1 in a put
\* that starts with load >= threshold and by 0 in any other, and capacity is
\* always INITIAL_CAPACITY * RESIZE_FACTOR^rehashes.
C18_OneRehashPerPut ==
  pc = "live" =>
    /\ t.capacity = INITIAL_CAPACITY * RESIZE_FACTOR ^ t.rehashes
    /\ \A key \in KeyPtrs, value \in ValPtrs :
         LET r == ht_put(t, key, value).t IN
         /\ r.rehashes = t.rehashes + (IF LoadAtThreshold(t) THEN 1 ELSE 0)
         /\ r.capacity = INITIAL_CAPACITY * RESIZE_FACTOR ^ r.rehashes
         /\ r.capacity >= t.capacity

\* A new key placed, without a rehash, in a table that has grown once.
C18_Witness ==
  /\ pc = "live"
  /\ last.op = "put"
  /\ ~last.rehashed
  /\ last.ret = NULL
  /\ ~last.again
  /\ t.rehashes = 1
  /\ t.occupancy = 4

\* The number of occupied slots holding another key that a probe for key
\* meets, from the key's ideal slot up to the first empty or matching slot.
Probed(tab, key) ==
  Cardinality({d \in 0 .. (tab.capacity - 1) :
    \A e \in 0 .. d :
      LET k == tab.table[(hash_fcn(tab, key) + e) % tab.capacity].key
      IN k # NULL /\ ~equals_fcn(key, k)})

\* The same count summed over the re-insertions that built a table: each
\* key's distance from its ideal slot.
TotalDisplacement(tab) ==
  Cardinality({p \in OccupiedSlots(tab) \X (1 .. tab.capacity) :
                 p[2] <= Displacement(tab, p[1])})

\* C19: collisions never decreases and is never reset; a has call, a put's
\* placement and a rehash's re-insertions each add exactly the number of
\* non-matching occupied slots probed (0 when the first slot is empty or
\* holds the key), the matching slot adding nothing.
C19_CollisionCounting ==
  /\ [](pc = "live" =>
          /\ Grow(t).t.collisions =
               t.collisions +
                 (IF LoadAtThreshold(t) THEN TotalDisplacement(Grow(t).t) ELSE 0)
          /\ \A key \in KeyPtrs :
               /\ ht_has(t, key).t.collisions = t.collisions + Probed(t, key)
               /\ \A value \in ValPtrs :
                    ht_put(t, key, value).t.collisions =
                      Grow(t).t.collisions + Probed(Grow(t).t, key))
  /\ [][pc = "live" => t'.collisions >= t.collisions]_vars

\* A put whose rehash and whose placement both met occupied slots.
C19_Witness ==
  /\ pc = "live"
  /\ last.op = "put"
  /\ last.rehashed
  /\ t.collisions >= 5
  /\ TotalDisplacement(t) >= 2

\* C20 as claimed: get of a present key leaves collisions, slots, capacity,
\* occupancy and rehashes exactly as they were.
C20_GetLeavesCounters ==
  [][(pc = "live" /\ last'.op = "get" /\ pc' = "live") => t' = t]_vars

\* C20 as the code has it: get of a present key leaves slots, capacity,
\* occupancy and rehashes as they were; its own probe counts nothing, but the
\* ht_has call in its assert adds to collisions the number of non-matching
\* occupied slots before the key's slot (0 for a key in its ideal slot).
C20_GetCountsThroughHas ==
  [][(pc = "live" /\ last'.op = "get" /\ has(t, last'.key))
       => /\ pc' = "live"
          /\ t' = [t EXCEPT !.collisions = t.collisions + Probed(t, last'.key)]
          /\ (equals_fcn(t.table[hash_fcn(t, last'.key) % t.capacity].key, last'.key)
                => t' = t)]_vars

\* get of a key stored two slots behind its ideal slot.
C20_Witness ==
  /\ pc = "live"
  /\ last.op = "get"
  /\ \E i \in OccupiedSlots(t) :
       equals_fcn(t.table[i].key, last.key) /\ Displacement(t, i) >= 2

====
